---- MODULE Spec2Model ----
(***************************************************************************)
(* Model of the asynchronous task service of sample-ai-agent:              *)
(*   src/agent.py  AIAgent: the bounded decision loop (execute_task)       *)
(*   src/app.py    the Flask handlers and the background thread that       *)
(*                 drives the loop and keeps task records in Redis         *)
(*                                                                         *)
(* Python dicts and Redis hashes are functions from a set of string keys,  *)
(* so that a missing key is a key outside the DOMAIN.  One action is one   *)
(* handler, or one stretch of the background thread between two blocking   *)
(* calls (Redis, the oracle, a tool).                                      *)
(***************************************************************************)
EXTENDS Naturals, Sequences, FiniteSets, TLC

\* ---------------------------------------------------------------- bounds
\* Number of POST /tasks calls explored (uuid4 identifiers are 1..MaxTasks).
MaxTasks == 2

\* ------------------------------------------------------ program constants
\* agent.py:131  max_steps = 5
max_steps == 5

\* -------------------------------------------------------------- the data
TaskIds == 1..MaxTasks

\* Task descriptions a client may post.
Descriptions == {"find news", "summarize text"}

\* Python's None, as dict.get and next(..., None) return it.
None == "None"

\* dict.get(key): the value, or None when the key is missing.
Get(d, k) == IF k \in DOMAIN d THEN d[k] ELSE None

\* A dict / Redis hash with no key.  hgetall of a missing key returns it.
EmptyDict == [k \in {} |-> ""]

\* The empty string, for fields that later hold JSON text.
EmptyText == <<>>

\* json.dumps(v): JSON text that carries v.  Never the empty string.
JsonDumps(v) == <<"json", v>>

\* json.loads(s): the value the text carries (raises on the empty string:
\* not reached, app.py reads "results" only of a completed record).
JsonLoads(s) == s[2]

\* agent.py:36-54  the names of self.tools, in order.
Tools == <<"web_search", "analyze_text", "summarize">>

\* agent.py:60,74,88  the key under which each tool returns its payload.
PayloadKey(name) ==
    CASE name = "web_search" -> "results"
      [] name = "analyze_text" -> "analysis"
      [] OTHER -> "summary"

\* agent.py:56-90  tool.function(input): every tool wraps its client call in
\* try/except; ok = the client call returned, ~ok = it raised.
ToolFunction(name, ok) ==
    IF ok THEN (("status" :> "success") @@ (PayloadKey(name) :> "payload"))
          ELSE [status |-> "error", message |-> "tool failure"]

\* Mutant of FindTool: the lookup falls back to the first tool.
FindTool_DefaultFirst(name) ==
    IF \E i \in DOMAIN Tools : Tools[i] = name THEN name ELSE Tools[1]

\* agent.py:143  next((t for t in self.tools if t.name == name), None)
FindTool(name) ==
    IF \E i \in DOMAIN Tools : Tools[i] = name
      THEN Tools[CHOOSE i \in DOMAIN Tools :
                   /\ Tools[i] = name
                   /\ \A j \in DOMAIN Tools : Tools[j] = name => i <= j]
      ELSE None

\* Capability names the oracle proposes in the model: one registered, one not.
ProposedNames == {"web_search", "nonexistent"}

\* The JSON objects the oracle answers with: a full proposal, a proposal
\* without tool_name, without input, and one that carries status "error".
OracleObjects ==
    {[tool_name |-> n, input |-> "q", reasoning |-> "r"] : n \in ProposedNames}
    \cup {[input |-> "q", reasoning |-> "r"]}
    \cup {[tool_name |-> n, reasoning |-> "r"] : n \in ProposedNames}
    \cup {[status |-> "error", tool_name |-> "web_search", input |-> "q"]}

\* What lines 105-113 of _decide_next_action can do: raise (the call fails,
\* or json.loads rejects the answer), or yield a JSON array or a JSON object.
OracleResponses ==
    {[kind |-> "raise", d |-> EmptyDict], [kind |-> "array", d |-> EmptyDict]}
    \cup {[kind |-> "object", d |-> o] : o \in OracleObjects}

\* Mutant of DecideNextAction: the except branch reports under "error"
\* instead of "status".
DecideNextAction_WrongKey(resp) ==
    IF resp.kind = "raise"
      THEN [isdict |-> TRUE, d |-> [error |-> "oracle failure"]]
      ELSE [isdict |-> resp.kind = "object", d |-> resp.d]

\* agent.py:92-115  _decide_next_action: json.loads of the answer; any
\* exception (the call, or json.loads on non-JSON text) becomes the error dict.
DecideNextAction(resp) ==
    IF resp.kind = "raise"
      THEN [isdict |-> TRUE, d |-> [status |-> "error", message |-> "oracle failure"]]
      ELSE [isdict |-> resp.kind = "object", d |-> resp.d]

\* Mutant of LoopContinues: off by one.
LoopContinues_OffByOne(step) == step <= max_steps

\* agent.py:134  while current_step < max_steps
LoopContinues(step) == step < max_steps

\* agent.py:138  action.get("status") == "error"
DecisionFailed(a) == Get(a, "status") = "error"

\* Mutant of TaskComplete: any status ends the loop (`if result.get("status")`).
TaskComplete_AnyStatus(result) == Get(result, "status") # None

\* Mutant of TaskComplete: tests for a status no tool returns.
TaskComplete_WrongTag(result) == Get(result, "status") = "completed"

\* agent.py:162  result.get("status") == "success"
TaskComplete(result) == Get(result, "status") = "success"

\* agent.py:139  the outcome appended when no action could be decided.  The
\* message of an outcome is the sequence of the parts of its text.
DecisionFailedEntry == [error |-> <<"Failed to decide next action">>]

\* agent.py:145  {"error": f"Tool {action['tool_name']} not found"}
ToolNotFoundEntry(name) == [error |-> <<"Tool ", name, " not found">>]

\* Mutant of StepEntry: the step number is the 0-based loop counter.
StepEntry_ZeroBased(step, a, result) == [step |-> step, action |-> a, result |-> result]

\* agent.py:155-159  the outcome of an executed step.
StepEntry(step, a, result) == [step |-> step + 1, action |-> a, result |-> result]

\* redis hset(key, mapping): the given fields overwrite, the others stay; on
\* a missing key (EmptyDict) the hash is created with the given fields only.
HSet(rec, mapping) ==
    [k \in DOMAIN rec \cup DOMAIN mapping |->
        IF k \in DOMAIN mapping THEN mapping[k] ELSE rec[k]]

\* app.py:64-69  the fields create_task writes.
PendingMapping(task) ==
    [task |-> task, status |-> "pending", results |-> EmptyText, error |-> ""]

\* app.py:27  hset(key, "status", "running")
RunningMapping == [status |-> "running"]

\* Mutant of CompletedMapping: the results are stored, the status is left
\* at running.
CompletedMapping_StatusKept(res) ==
    [status |-> "running", results |-> JsonDumps(res), error |-> ""]

\* app.py:35-39  the fields written when execute_task returned.
CompletedMapping(res) ==
    [status |-> "completed", results |-> JsonDumps(res), error |-> ""]

\* Mutant of FailedMapping: the handler also stores a one-entry trajectory
\* that reports the exception.
FailedMapping_WithResults(e) ==
    [status |-> "failed", error |-> e, results |-> JsonDumps(<<[error |-> <<e>>]>>)]

\* app.py:45-48  the fields written when execute_task raised.
FailedMapping(e) == [status |-> "failed", error |-> e]

\* ------------------------------------------------------------- the state
VARIABLES
    store,            \* Redis: task id -> hash of key "task:<id>" (EmptyDict: no key)
    ttl,              \* Redis: task id -> the key has an expiry set
    elapsed,          \* task id -> 3600 s have passed since create_task's expire
    nextId,           \* the next fresh uuid4
    pc,               \* task id -> position of its background thread
    task_description, \* task id -> argument of execute_task_async
    results,          \* task id -> local list `results` of execute_task
    current_step,     \* task id -> local `current_step` of execute_task
    action,           \* task id -> local `action` of execute_task
    exc,              \* task id -> str(e) of the exception execute_task raised
    state,            \* agent.state of the one module-level AIAgent (app.py:14)
    statusLog,        \* history: task id -> the status values written, in order
    oracle_log,       \* history: task id -> what each oracle call did, and for which task
    tool_log          \* history: task id -> what each tool call returned

vars == <<store, ttl, elapsed, nextId, pc, task_description, results,
          current_step, action, exc, state, statusLog, oracle_log, tool_log>>

\* Local variables of the thread of t and the histories of its calls.
locals == <<results, current_step, action, exc>>
logs == <<oracle_log, tool_log>>
redis == <<store, ttl, elapsed, statusLog>>

\* agent.py:19-22,31  AgentState(): built once, in AIAgent.__init__.
\* A memory entry is {timestamp, action, result}; the timestamp is left out.
AgentState == [current_task |-> "", memory |-> <<>>]

Init ==
    /\ store = [t \in TaskIds |-> EmptyDict]
    /\ ttl = [t \in TaskIds |-> FALSE]
    /\ elapsed = [t \in TaskIds |-> FALSE]
    /\ nextId = 1
    /\ pc = [t \in TaskIds |-> "none"]
    /\ task_description = [t \in TaskIds |-> ""]
    /\ results = [t \in TaskIds |-> <<>>]
    /\ current_step = [t \in TaskIds |-> 0]
    /\ action = [t \in TaskIds |-> EmptyDict]
    /\ exc = [t \in TaskIds |-> ""]
    /\ state = AgentState
    /\ statusLog = [t \in TaskIds |-> <<>>]
    /\ oracle_log = [t \in TaskIds |-> <<>>]
    /\ tool_log = [t \in TaskIds |-> <<>>]

\* ------------------------------------------------------------ the handlers
\* app.py:76-80  the answer of a POST /tasks that created a task.
CreateTaskResponse(task_id) ==
    [code |-> 200,
     body |-> [task_id |-> task_id, status |-> "pending",
               message |-> "Task created successfully"]]

\* app.py:57  the answer of a POST /tasks without a "task".
RejectedResponse == [code |-> 400, body |-> [error |-> "No task provided"]]

\* Mutant of CreateTask: the identifier is not fresh, every task is keyed 1.
CreateTask_ReusedId(task) ==
    /\ nextId <= MaxTasks
    /\ LET task_id == 1 IN
        /\ store' = [store EXCEPT ![task_id] = HSet(@, PendingMapping(task))]
        /\ ttl' = [ttl EXCEPT ![task_id] = TRUE]
        /\ statusLog' = [statusLog EXCEPT ![task_id] = Append(@, "pending")]
        /\ task_description' = [task_description EXCEPT ![task_id] = task]
        /\ pc' = [pc EXCEPT ![task_id] = "start"]
    /\ nextId' = nextId + 1
    /\ UNCHANGED <<elapsed, locals, state, logs>>

\* app.py:51-80  POST /tasks with a body that has a "task": the record is
\* written, its expiry set, and the background thread started.
CreateTask(task) ==
    /\ nextId <= MaxTasks
    /\ LET task_id == nextId IN
        /\ store' = [store EXCEPT ![task_id] = HSet(@, PendingMapping(task))]
        /\ ttl' = [ttl EXCEPT ![task_id] = TRUE]
        /\ statusLog' = [statusLog EXCEPT ![task_id] = Append(@, "pending")]
        /\ task_description' = [task_description EXCEPT ![task_id] = task]
        /\ pc' = [pc EXCEPT ![task_id] = "start"]
        /\ CreateTaskResponse(task_id).code = 200
    /\ nextId' = nextId + 1
    /\ UNCHANGED <<elapsed, locals, state, logs>>

\* app.py:54-57  POST /tasks without a "task": 400, nothing is written.
CreateTaskRejected ==
    /\ RejectedResponse.code = 400
    /\ UNCHANGED vars

\* Mutant of TaskStatusResponse: the error is included whenever the task is
\* not completed.
TaskStatusResponse_ErrorElse(task_id, task_data) ==
    IF task_data = EmptyDict
      THEN [code |-> 404, body |-> [error |-> "Task not found"]]
      ELSE [code |-> 200,
            body |->
              [task_id |-> task_id,
               task |-> IF "task" \in DOMAIN task_data THEN task_data["task"] ELSE "",
               status |-> IF "status" \in DOMAIN task_data
                            THEN task_data["status"] ELSE "unknown"]
              @@ (IF Get(task_data, "status") = "completed"
                    THEN [results |-> JsonLoads(task_data["results"])]
                    ELSE [error |-> IF "error" \in DOMAIN task_data
                                      THEN task_data["error"] ELSE "Unknown error"])]

\* app.py:85-104  the answer of GET /tasks/<task_id> for a given hash.
TaskStatusResponse(task_id, task_data) ==
    IF task_data = EmptyDict
      THEN [code |-> 404, body |-> [error |-> "Task not found"]]
      ELSE [code |-> 200,
            body |->
              [task_id |-> task_id,
               task |-> IF "task" \in DOMAIN task_data THEN task_data["task"] ELSE "",
               status |-> IF "status" \in DOMAIN task_data
                            THEN task_data["status"] ELSE "unknown"]
              @@ (IF Get(task_data, "status") = "completed"
                    THEN [results |-> JsonLoads(task_data["results"])]
                    ELSE EmptyDict)
              @@ (IF Get(task_data, "status") = "failed"
                    THEN [error |-> IF "error" \in DOMAIN task_data
                                      THEN task_data["error"] ELSE "Unknown error"]
                    ELSE EmptyDict)]

\* app.py:82-104  GET /tasks/<task_id>: reads the hash, writes nothing.
GetTaskStatus(task_id) ==
    /\ TaskStatusResponse(task_id, store[task_id]).code \in {200, 404}
    /\ UNCHANGED vars

\* app.py:106-118  GET /tasks: one item per key the scan finds.  The scan
\* order is not defined; the items are kept as a set.
TaskList ==
    {[task_id |-> t,
      task |-> IF "task" \in DOMAIN store[t] THEN store[t]["task"] ELSE "",
      status |-> IF "status" \in DOMAIN store[t] THEN store[t]["status"] ELSE "unknown"]
       : t \in {u \in TaskIds : store[u] # EmptyDict}}

\* app.py:106-118  GET /tasks: reads the hashes, writes nothing.
ListTasks ==
    /\ [code |-> 200, body |-> [tasks |-> TaskList]].code = 200
    /\ UNCHANGED vars

\* Redis: the expiry set at app.py:71 fires, 3600 s after create_task; the
\* key is removed with all its fields.
Expire(t) ==
    /\ ttl[t]
    /\ store' = [store EXCEPT ![t] = EmptyDict]
    /\ ttl' = [ttl EXCEPT ![t] = FALSE]
    /\ elapsed' = [elapsed EXCEPT ![t] = TRUE]
    /\ UNCHANGED <<statusLog, nextId, pc, task_description, locals, state, logs>>

\* ------------------------------------------------- the background thread
\* The write of a status by the thread of t: hset never sets an expiry.
WriteRecord(t, mapping) ==
    /\ store' = [store EXCEPT ![t] = HSet(@, mapping)]
    /\ statusLog' = [statusLog EXCEPT ![t] = Append(@, mapping["status"])]
    /\ UNCHANGED <<ttl, elapsed>>

\* app.py:27  execute_task_async: the status becomes running.
MarkRunning(t) ==
    /\ pc[t] = "start"
    /\ WriteRecord(t, RunningMapping)
    /\ pc' = [pc EXCEPT ![t] = "execute"]
    /\ UNCHANGED <<nextId, task_description, locals, state, logs>>

\* agent.py:127-134  execute_task up to the first loop test.
BeginExecute(t) ==
    /\ pc[t] = "execute"
    /\ state' = [state EXCEPT !.current_task = task_description[t]]
    /\ results' = [results EXCEPT ![t] = <<>>]
    /\ current_step' = [current_step EXCEPT ![t] = 0]
    /\ pc' = [pc EXCEPT ![t] = IF LoopContinues(0) THEN "decide" ELSE "return"]
    /\ UNCHANGED <<redis, nextId, task_description, action, exc, logs>>

\* Mutant of PromptTask: the prompt is built from self.state.current_task.
PromptTask_FromState(st, task) == st.current_task

\* agent.py:96,136  the task the oracle is asked about: the argument `task`
\* of execute_task, not the current_task of the agent's state.
PromptTask(st, task) == task

\* agent.py:136-146  one oracle call and what the loop does with its answer,
\* up to the tool call; resp is what the chat-completion call did.
Decide(t, resp) ==
    /\ pc[t] = "decide"
    /\ oracle_log' = [oracle_log EXCEPT ![t] =
                         Append(@, resp @@ [task |-> PromptTask(state, task_description[t])])]
    /\ LET a == DecideNextAction(resp) IN
        IF ~a.isdict
          THEN \* action.get on a list: AttributeError leaves execute_task
               /\ exc' = [exc EXCEPT ![t] = "'list' object has no attribute 'get'"]
               /\ pc' = [pc EXCEPT ![t] = "except"]
               /\ UNCHANGED <<results, action>>
        ELSE IF DecisionFailed(a.d)
          THEN /\ results' = [results EXCEPT ![t] = Append(@, DecisionFailedEntry)]
               /\ pc' = [pc EXCEPT ![t] = "return"]
               /\ action' = [action EXCEPT ![t] = a.d]
               /\ UNCHANGED exc
        ELSE IF "tool_name" \notin DOMAIN a.d
          THEN \* action["tool_name"]: KeyError
               /\ exc' = [exc EXCEPT ![t] = "'tool_name'"]
               /\ pc' = [pc EXCEPT ![t] = "except"]
               /\ action' = [action EXCEPT ![t] = a.d]
               /\ UNCHANGED results
        ELSE IF FindTool(a.d["tool_name"]) = None
          THEN /\ results' = [results EXCEPT ![t] =
                                 Append(@, ToolNotFoundEntry(a.d["tool_name"]))]
               /\ pc' = [pc EXCEPT ![t] = "return"]
               /\ action' = [action EXCEPT ![t] = a.d]
               /\ UNCHANGED exc
        ELSE IF "input" \notin DOMAIN a.d
          THEN \* action["input"]: KeyError
               /\ exc' = [exc EXCEPT ![t] = "'input'"]
               /\ pc' = [pc EXCEPT ![t] = "except"]
               /\ action' = [action EXCEPT ![t] = a.d]
               /\ UNCHANGED results
          ELSE /\ action' = [action EXCEPT ![t] = a.d]
               /\ pc' = [pc EXCEPT ![t] = "invoke"]
               /\ UNCHANGED <<results, exc>>
    /\ UNCHANGED <<redis, nextId, task_description, current_step, state, tool_log>>

\* agent.py:117-123  update_memory: appends to the memory of self.state.
UpdateMemory(st, a, result) ==
    [st EXCEPT !.memory = Append(@, [action |-> a, result |-> result])]

\* agent.py:149-165  the tool call, the memory update, the step outcome and
\* the end-of-iteration test; ok says whether the tool's client call returned.
Invoke(t, ok) ==
    /\ pc[t] = "invoke"
    /\ LET result == ToolFunction(FindTool(action[t]["tool_name"]), ok) IN
        /\ tool_log' = [tool_log EXCEPT ![t] = Append(@, result)]
        /\ state' = UpdateMemory(state, action[t], result)
        /\ results' = [results EXCEPT ![t] =
                          Append(@, StepEntry(current_step[t], action[t], result))]
        /\ IF TaskComplete(result)
             THEN /\ pc' = [pc EXCEPT ![t] = "return"]
                  /\ UNCHANGED current_step
             ELSE /\ current_step' = [current_step EXCEPT ![t] = @ + 1]
                  /\ pc' = [pc EXCEPT ![t] =
                               IF LoopContinues(current_step[t] + 1)
                                 THEN "decide" ELSE "return"]
    /\ UNCHANGED <<redis, nextId, task_description, action, exc, oracle_log>>

\* app.py:33-40  execute_task returned: the results are stored.
StoreResults(t) ==
    /\ pc[t] = "return"
    /\ WriteRecord(t, CompletedMapping(results[t]))
    /\ pc' = [pc EXCEPT ![t] = "done"]
    /\ UNCHANGED <<nextId, task_description, locals, state, logs>>

\* Mutant of StoreError: no handler, the thread dies with the exception and
\* writes nothing.
StoreError_ThreadDies(t) ==
    /\ pc[t] = "except"
    /\ pc' = [pc EXCEPT ![t] = "done"]
    /\ UNCHANGED <<redis, nextId, task_description, locals, state, logs>>

\* app.py:41-49  execute_task raised: the error is stored.
StoreError(t) ==
    /\ pc[t] = "except"
    /\ WriteRecord(t, FailedMapping(exc[t]))
    /\ pc' = [pc EXCEPT ![t] = "done"]
    /\ UNCHANGED <<nextId, task_description, locals, state, logs>>

Next ==
    \/ \E task \in Descriptions : CreateTask(task)
    \/ CreateTaskRejected
    \/ \E t \in TaskIds : GetTaskStatus(t)
    \/ ListTasks
    \/ \E t \in TaskIds : Expire(t)
    \/ \E t \in TaskIds : MarkRunning(t)
    \/ \E t \in TaskIds : BeginExecute(t)
    \/ \E t \in TaskIds, resp \in OracleResponses : Decide(t, resp)
    \/ \E t \in TaskIds, ok \in BOOLEAN : Invoke(t, ok)
    \/ \E t \in TaskIds : StoreResults(t)
    \/ \E t \in TaskIds : StoreError(t)

Spec == Init /\ [][Next]_vars

\* One step of the background thread of t, whatever the oracle or the tool
\* answers.
ThreadStep(t) ==
    \/ MarkRunning(t)
    \/ BeginExecute(t)
    \/ \E resp \in OracleResponses : Decide(t, resp)
    \/ \E ok \in BOOLEAN : Invoke(t, ok)
    \/ StoreResults(t)
    \/ StoreError(t)

\* The description posted in the behaviours checked for progress: no step
\* of a thread tests the description, one value stands for all.
LiveDescriptions == {"find news"}

\* Next, with the posted description taken from LiveDescriptions.
FairNext ==
    \/ \E task \in LiveDescriptions : CreateTask(task)
    \/ CreateTaskRejected
    \/ \E t \in TaskIds : GetTaskStatus(t)
    \/ ListTasks
    \/ \E t \in TaskIds : Expire(t)
    \/ \E t \in TaskIds : MarkRunning(t)
    \/ \E t \in TaskIds : BeginExecute(t)
    \/ \E t \in TaskIds, resp \in OracleResponses : Decide(t, resp)
    \/ \E t \in TaskIds, ok \in BOOLEAN : Invoke(t, ok)
    \/ \E t \in TaskIds : StoreResults(t)
    \/ \E t \in TaskIds : StoreError(t)

\* app.py:74  Thread(...).start(): a started thread keeps being scheduled,
\* and every Redis, oracle and tool call it makes returns.
FairSpec ==
    Init /\ [][FairNext]_vars /\ \A t \in TaskIds : WF_vars(ThreadStep(t))

\* ------------------------------------------------------------ properties
Last(s) == s[Len(s)]

IsPrefix(s, w) == Len(s) <= Len(w) /\ \A i \in 1..Len(s) : s[i] = w[i]

\* The task ids create_task has handed out so far.
Submitted == 1..(nextId - 1)

\* The thread of t is inside execute_task (agent.py:127-167).
Executing(t) == pc[t] \in {"decide", "invoke"}

\* The thread of t has left execute_task, by return or by an exception.
Left(t) == pc[t] \in {"return", "except", "done"}

\* What GET /tasks/<t> answers in the current state.
StatusOf(t) == TaskStatusResponse(t, store[t])

\* The trajectory and the error a record holds ("" and no field: none).
TrajectoryOf(rec) ==
    IF "results" \in DOMAIN rec /\ rec["results"] # EmptyText
      THEN JsonLoads(rec["results"]) ELSE <<>>

ErrorOf(rec) == IF "error" \in DOMAIN rec THEN rec["error"] ELSE ""

\* An oracle answer that is a Proposal: a JSON object with exactly the
\* fields tool_name, input and reasoning.
IsProposal(resp) ==
    resp.kind = "object" /\ DOMAIN resp.d = {"tool_name", "input", "reasoning"}

\* A Proposal that names a registered tool.
ProposesRegistered(resp) ==
    IsProposal(resp) /\ FindTool(resp.d["tool_name"]) # None

\* An entry of a trajectory that is the outcome of an executed step.
IsStep(e) == DOMAIN e = {"step", "action", "result"}

\* C1: for every task id, under every interleaving of submit, background
\* execution, queries and expiry, the status values written to its record
\* are, in order, a prefix of pending, running, completed or of pending,
\* running, failed, and a record that exists shows the last value written.
C1_StatusOrder ==
    \A t \in TaskIds :
        /\ \/ IsPrefix(statusLog[t], <<"pending", "running", "completed">>)
           \/ IsPrefix(statusLog[t], <<"pending", "running", "failed">>)
        /\ store[t] # EmptyDict =>
              /\ "status" \in DOMAIN store[t]
              /\ statusLog[t] # <<>>
              /\ store[t]["status"] = Last(statusLog[t])

\* C1 witness: a record went pending, running, failed with its expiry
\* falling in between, and is visible with the terminal status.
C1_Witness ==
    \E t \in TaskIds :
        /\ statusLog[t] = <<"pending", "running", "failed">>
        /\ elapsed[t]
        /\ store[t] # EmptyDict

\* The memory an AgentState of t's own would hold: one entry per tool call
\* of t, in order.
OwnMemory(t) ==
    [i \in 1..Len(tool_log[t]) |->
        [action |-> oracle_log[t][i].d, result |-> tool_log[t][i]]]

\* C2 (as claimed): while two executions overlap, each works on an
\* AgentState of its own: the state an execution uses holds its own task
\* as current_task and its own memory entries only.
C2_OwnAgentState ==
    \A t, u \in TaskIds :
        (t # u /\ Executing(t) /\ Executing(u)) =>
            /\ state.current_task = task_description[t]
            /\ state.memory = OwnMemory(t)

\* C3 (as claimed): an id that was never submitted, or whose hour has
\* elapsed, is not found by get_status and not listed, whatever its
\* background execution does afterwards.
C3_GoneAfterWindow ==
    \A t \in TaskIds :
        (t \notin Submitted \/ elapsed[t]) =>
            /\ StatusOf(t).code = 404
            /\ \A item \in TaskList : item.task_id # t

\* C4: no record has both a non-empty trajectory and a non-empty error.
C4_Exclusive ==
    \A t \in TaskIds :
        ~(TrajectoryOf(store[t]) # <<>> /\ ErrorOf(store[t]) # "")

\* C4 witness: one record is failed with an error and no trajectory while
\* another is completed with a trajectory and no error.
C4_Witness ==
    \E t, u \in TaskIds :
        /\ Get(store[t], "status") = "failed"
        /\ ErrorOf(store[t]) # "" /\ TrajectoryOf(store[t]) = <<>>
        /\ Get(store[u], "status") = "completed"
        /\ ErrorOf(store[u]) = "" /\ TrajectoryOf(store[u]) # <<>>

\* C5 (as claimed): after an oracle call that failed or answered something
\* that is not a Proposal, the trajectory ends with the DecisionFailed
\* outcome, execute_task returns it, and the record becomes completed.
C5_DecisionFailedCompletes ==
    \A t \in TaskIds :
        (oracle_log[t] # <<>> /\ ~IsProposal(Last(oracle_log[t]))) =>
            /\ pc[t] \in {"return", "done"}
            /\ results[t] # <<>>
            /\ Last(results[t]) = DecisionFailedEntry
            /\ pc[t] = "done" => Last(statusLog[t]) = "completed"

\* C6: when every oracle call of an execution proposed a registered
\* capability and every tool call returned an error, the trajectory
\* returned has exactly max_steps entries, all step outcomes tagged error,
\* and the record is completed with that trajectory.
C6_AllErrors ==
    \A t \in TaskIds :
        ( /\ Left(t)
          /\ \A i \in DOMAIN oracle_log[t] : ProposesRegistered(oracle_log[t][i])
          /\ \A i \in DOMAIN tool_log[t] : tool_log[t][i]["status"] = "error" ) =>
            /\ pc[t] # "except"
            /\ Len(results[t]) = max_steps
            /\ max_steps = 5
            /\ \A i \in DOMAIN results[t] :
                  IsStep(results[t][i]) /\ results[t][i].result["status"] = "error"
            /\ pc[t] = "done" =>
                  /\ Last(statusLog[t]) = "completed"
                  /\ store[t] # EmptyDict =>
                        /\ store[t]["status"] = "completed"
                        /\ StatusOf(t).body["results"] = results[t]

\* C6 witness: an execution of five registered proposals and five tool
\* errors has stored its record.
C6_Witness ==
    \E t \in TaskIds :
        /\ pc[t] = "done" /\ store[t] # EmptyDict
        /\ Len(oracle_log[t]) = 5 /\ Len(tool_log[t]) = 5
        /\ \A i \in 1..5 : ProposesRegistered(oracle_log[t][i])
        /\ \A i \in 1..5 : tool_log[t][i]["status"] = "error"

\* C7: a step outcome tagged success is the last entry of its trajectory,
\* the loop has stopped there (no oracle or tool call follows it), and when
\* the first tool call succeeded the trajectory has exactly one entry.
C7_StopAtSuccess ==
    \A t \in TaskIds :
        /\ \A i \in DOMAIN results[t] :
              (IsStep(results[t][i]) /\ results[t][i].result["status"] = "success") =>
                  /\ i = Len(results[t])
                  /\ ~Executing(t)
                  /\ Len(oracle_log[t]) = i
                  /\ Len(tool_log[t]) = i
        /\ \A i \in DOMAIN tool_log[t] :
              tool_log[t][i]["status"] = "success" =>
                  /\ Len(results[t]) = i
                  /\ IsStep(results[t][i]) /\ results[t][i].result = tool_log[t][i]
                  /\ Left(t)

\* C7 witness: a first step succeeded and the one-entry trajectory is stored.
C7_Witness ==
    \E t \in TaskIds :
        /\ pc[t] = "done"
        /\ tool_log[t] # <<>> /\ tool_log[t][1]["status"] = "success"
        /\ Len(results[t]) = 1
        /\ TrajectoryOf(store[t]) = results[t]

\* C8: when the k-th oracle call of an execution fails, the trajectory has
\* exactly k entries, the k-th is the DecisionFailed outcome, and the k-1
\* before it are step outcomes tagged error.
C8_FailAtStepK ==
    \A t \in TaskIds : \A k \in 1..max_steps :
        (Len(oracle_log[t]) >= k /\ oracle_log[t][k].kind = "raise") =>
            /\ Len(oracle_log[t]) = k
            /\ Len(results[t]) = k
            /\ results[t][k] = DecisionFailedEntry
            /\ \A i \in 1..(k - 1) :
                  IsStep(results[t][i]) /\ results[t][i].result["status"] = "error"
            /\ pc[t] \in {"return", "done"}

\* C8 witness: the oracle failed on the last step of the budget, after four
\* steps that ended in tool errors.
C8_Witness ==
    \E t \in TaskIds :
        /\ Len(oracle_log[t]) = 5 /\ oracle_log[t][5].kind = "raise"
        /\ Len(results[t]) = 5
        /\ pc[t] = "done"

\* An object answer that names a capability outside the registry.
NamesUnregistered(resp) ==
    /\ resp.kind = "object"
    /\ "tool_name" \in DOMAIN resp.d
    /\ ~DecisionFailed(resp.d)
    /\ \A i \in DOMAIN Tools : Tools[i] # resp.d["tool_name"]

\* C9: when the oracle names an unregistered capability, the trajectory ends
\* with the CapabilityNotFound outcome naming it, no tool is called for that
\* step, the loop has stopped, and the record is completed with that
\* trajectory (one entry when it happens on the first step).
C9_ToolNotFound ==
    \A t \in TaskIds : \A k \in DOMAIN oracle_log[t] :
        NamesUnregistered(oracle_log[t][k]) =>
            /\ k = Len(oracle_log[t])
            /\ Len(tool_log[t]) = k - 1
            /\ Len(results[t]) = k
            /\ results[t][k] = ToolNotFoundEntry(oracle_log[t][k].d["tool_name"])
            /\ pc[t] \in {"return", "done"}
            /\ pc[t] = "done" =>
                  /\ Last(statusLog[t]) = "completed"
                  /\ store[t] # EmptyDict =>
                        /\ store[t]["status"] = "completed"
                        /\ Last(StatusOf(t).body["results"]) = results[t][k]

\* C9 witness: the first proposal named an unregistered capability and the
\* one-entry trajectory is stored.
C9_Witness ==
    \E t \in TaskIds :
        /\ pc[t] = "done"
        /\ NamesUnregistered(oracle_log[t][1])
        /\ Len(TrajectoryOf(store[t])) = 1
        /\ Get(store[t], "status") = "completed"

\* C10 (as claimed): for a record that reached a terminal status, get_status
\* answers with the trajectory or error the execution wrote for as long as
\* the hour has not elapsed, and with not-found once it has.
C10_TerminalReads ==
    \A t \in TaskIds :
        (statusLog[t] # <<>> /\ Last(statusLog[t]) \in {"completed", "failed"}) =>
            IF elapsed[t]
              THEN StatusOf(t).code = 404
              ELSE /\ StatusOf(t).code = 200
                   /\ Last(statusLog[t]) = "completed" =>
                         StatusOf(t).body["results"] = results[t]
                   /\ Last(statusLog[t]) = "failed" =>
                         StatusOf(t).body["error"] = exc[t]

\* C11: under fair scheduling of the threads, with every oracle and tool
\* call returning, every submitted task's thread ends after writing a
\* terminal status, so none stays pending or running for ever; and no
\* execution makes more than max_steps loop iterations.
C11_Terminates ==
    /\ \A t \in TaskIds :
          (pc[t] = "start") ~>
              (pc[t] = "done" /\ Last(statusLog[t]) \in {"completed", "failed"})
    /\ [](\A t \in TaskIds :
            /\ Len(oracle_log[t]) <= max_steps
            /\ current_step[t] <= max_steps)

\* C11 witness: a thread that used the whole step budget has ended with a
\* terminal status while the other thread is still running.
C11_Witness ==
    \E t, u \in TaskIds :
        /\ pc[t] = "done" /\ Len(oracle_log[t]) = max_steps
        /\ Last(statusLog[t]) \in {"completed", "failed"}
        /\ Executing(u)

\* C12: every submit schedules exactly one execution, under an identifier
\* not used before; an identifier's execution is never scheduled a second
\* time, so at most one is active per identifier; a record changes only in
\* a step of its own identifier's thread (or by its expiry); and a thread
\* that has ended, failed or completed, is not run again.
C12_OneExecutionPerId ==
    [][ /\ nextId' # nextId =>
              /\ nextId' = nextId + 1
              /\ Cardinality({t \in TaskIds : pc[t] # "start" /\ pc'[t] = "start"}) = 1
        /\ \A t \in TaskIds :
              /\ (pc[t] # "start" /\ pc'[t] = "start") =>
                    /\ t = nextId /\ nextId' = nextId + 1
                    /\ pc[t] = "none"
                    /\ statusLog[t] = <<>> /\ store[t] = EmptyDict
              /\ pc[t] # "none" => pc'[t] # "none"
              /\ (pc[t] # "none" /\ store'[t] # store[t]) =>
                    \/ pc'[t] # pc[t] /\ \A u \in TaskIds \ {t} : pc'[u] = pc[u]
                    \/ ttl[t] /\ ~ttl'[t] /\ store'[t] = EmptyDict
              /\ pc[t] = "done" =>
                    pc'[t] = "done" /\ statusLog'[t] = statusLog[t]
      ]_vars

\* C12 witness: one task has ended failed while the execution of the other,
\* submitted under its own identifier, is active.
C12_Witness ==
    \E t, u \in TaskIds :
        /\ t # u
        /\ pc[t] = "done" /\ Last(statusLog[t]) = "failed"
        /\ Executing(u)
        /\ store[t] # EmptyDict /\ store[u] # EmptyDict

\* What GET /tasks/<t> shows of a record that exists: the trajectory exactly
\* when the status is completed (and then the one stored), the error
\* exactly when the status is failed (and then the one stored).
ShowsByStatus(t) ==
    StatusOf(t).code = 200 =>
        /\ StatusOf(t).body["status"] = store[t]["status"]
        /\ "results" \in DOMAIN StatusOf(t).body <=> store[t]["status"] = "completed"
        /\ "error" \in DOMAIN StatusOf(t).body <=> store[t]["status"] = "failed"
        /\ store[t]["status"] = "completed" =>
              StatusOf(t).body["results"] = TrajectoryOf(store[t])
        /\ store[t]["status"] = "failed" =>
              StatusOf(t).body["error"] = ErrorOf(store[t])

\* C13: get_status changes no record and no expiry, and its answer holds
\* the trajectory exactly when the record is completed and the error
\* exactly when the record is failed.
C13_ReadOnlyByStatus ==
    /\ [](\A t \in TaskIds : ShowsByStatus(t))
    /\ [][(\E t \in TaskIds : GetTaskStatus(t)) =>
              UNCHANGED <<store, ttl, elapsed, statusLog>>]_vars

\* C13 witness: get_status has a completed record to show with its
\* trajectory and a failed one to show with its error.
C13_Witness ==
    \E t, u \in TaskIds :
        /\ StatusOf(t).code = 200 /\ StatusOf(u).code = 200
        /\ "results" \in DOMAIN StatusOf(t).body
        /\ "error" \notin DOMAIN StatusOf(t).body
        /\ "error" \in DOMAIN StatusOf(u).body
        /\ "results" \notin DOMAIN StatusOf(u).body

\* C14 (as claimed): every invocation of execute_task starts with an empty
\* memory, and when it returns the memory holds exactly one entry per tool
\* call of that invocation, in order, and nothing of an earlier invocation.
C14_FreshMemory ==
    [][\A t \in TaskIds :
          /\ (pc[t] = "execute" /\ pc'[t] # "execute") => state'.memory = <<>>
          /\ (Executing(t) /\ pc'[t] = "return") => state'.memory = OwnMemory(t)'
      ]_vars

\* C15 (as claimed): whenever get_status or the listing shows a record for
\* an identifier, the description shown is the one given to the submit
\* that created the identifier.
C15_DescriptionKept ==
    \A t \in TaskIds :
        /\ StatusOf(t).code = 200 => StatusOf(t).body["task"] = task_description[t]
        /\ \A item \in TaskList :
              item.task_id = t => item.task = task_description[t]

\* C16: a tool call that fails yields an error-tagged result; the step that
\* made it appends that result to the trajectory and to the memory, uses up
\* exactly one step of the budget, does not leave execute_task by an
\* exception, and goes on to the next oracle call unless the budget is
\* used up.  A record is failed only by a step that called no tool.
C16_ToolErrorAbsorbed ==
    /\ [][\A t \in TaskIds :
            ( /\ pc[t] = "invoke" /\ pc'[t] # "invoke"
              /\ Last(tool_log'[t])["status"] = "error" ) =>
                /\ Len(tool_log'[t]) = Len(tool_log[t]) + 1
                /\ results'[t] =
                      Append(results[t], [step |-> current_step[t] + 1,
                                          action |-> action[t],
                                          result |-> Last(tool_log'[t])])
                /\ state'.memory =
                      Append(state.memory, [action |-> action[t],
                                            result |-> Last(tool_log'[t])])
                /\ current_step'[t] = current_step[t] + 1
                /\ pc'[t] = IF current_step'[t] < max_steps THEN "decide" ELSE "return"
                /\ statusLog'[t] = statusLog[t]
          ]_vars
    /\ [](\A t \in TaskIds :
            (pc[t] = "except" \/ (statusLog[t] # <<>> /\ Last(statusLog[t]) = "failed")) =>
                Len(oracle_log[t]) = Len(tool_log[t]) + 1)

\* C16 witness: a tool failed on the first step, the loop asked the oracle
\* again, and the record ended completed.
C16_Witness ==
    \E t \in TaskIds :
        /\ Len(tool_log[t]) >= 1 /\ tool_log[t][1]["status"] = "error"
        /\ Len(oracle_log[t]) >= 2
        /\ pc[t] = "done" /\ Last(statusLog[t]) = "completed"

\* The outcome the i-th oracle call of t, and the tool call that followed
\* it if one did, stand for in a trajectory.
OwnOutcome(t, i) ==
    IF i <= Len(tool_log[t])
      THEN [step |-> i, action |-> oracle_log[t][i].d, result |-> tool_log[t][i]]
    ELSE IF NamesUnregistered(oracle_log[t][i])
      THEN ToolNotFoundEntry(oracle_log[t][i].d["tool_name"])
      ELSE DecisionFailedEntry

Concat(s, w) == s \o w

\* execute_task of t has returned a trajectory (it did not raise).
Returned(t) ==
    pc[t] = "return" \/ (pc[t] = "done" /\ Last(statusLog[t]) = "completed")

\* C17: with all executions running on the one agent, every oracle call of
\* an execution is made with that execution's own task, the trajectory it
\* builds holds the outcomes of its own calls, one per oracle call and in
\* call order, and the trajectory stored under its identifier is that one.
C17_OwnTrajectory ==
    \A t \in TaskIds :
        /\ \A i \in DOMAIN oracle_log[t] : oracle_log[t][i].task = task_description[t]
        /\ Len(results[t]) <= Len(oracle_log[t])
        /\ \A i \in DOMAIN results[t] : results[t][i] = OwnOutcome(t, i)
        /\ Returned(t) => Len(results[t]) = Len(oracle_log[t])
        /\ TrajectoryOf(store[t]) # <<>> =>
              /\ pc[t] = "done"
              /\ TrajectoryOf(store[t]) = results[t]

\* C17 witness: two executions with different tasks have interleaved their
\* steps on the agent (its memory is neither one's entries followed by the
\* other's) and both trajectories are stored.
C17_Witness ==
    \E t, u \in TaskIds :
        /\ t # u /\ task_description[t] # task_description[u]
        /\ TrajectoryOf(store[t]) # <<>> /\ TrajectoryOf(store[u]) # <<>>
        /\ TrajectoryOf(store[t]) # TrajectoryOf(store[u])
        /\ state.memory # Concat(OwnMemory(t), OwnMemory(u))
        /\ state.memory # Concat(OwnMemory(u), OwnMemory(t))

\* C18: whatever the oracle and the tools answer, an execution makes at
\* most max_steps (5) oracle calls and at most max_steps tool calls, and a
\* trajectory that execute_task returns has at least 1 and at most
\* max_steps entries.
C18_Bounded ==
    \A t \in TaskIds :
        /\ Len(oracle_log[t]) <= max_steps
        /\ Len(tool_log[t]) <= max_steps
        /\ Len(tool_log[t]) <= Len(oracle_log[t])
        /\ Returned(t) =>
              /\ 1 <= Len(results[t]) /\ Len(results[t]) <= 5
              /\ Len(results[t]) <= max_steps
        /\ Len(TrajectoryOf(store[t])) <= max_steps
        /\ Get(store[t], "status") = "completed" => Len(TrajectoryOf(store[t])) >= 1

\* C18 witness: one execution returned a trajectory of max_steps entries
\* after max_steps oracle and tool calls, another a trajectory of one entry
\* without any tool call.
C18_Witness ==
    \E t, u \in TaskIds :
        /\ Returned(t) /\ Len(results[t]) = max_steps
        /\ Len(oracle_log[t]) = max_steps /\ Len(tool_log[t]) = max_steps
        /\ Returned(u) /\ Len(results[u]) = 1 /\ tool_log[u] = <<>>

\* C19: in every trajectory, also while it is being built, every entry but
\* the last is a step outcome tagged error, a step outcome at position i
\* carries step number i, and a success-tagged outcome, a DecisionFailed or
\* a CapabilityNotFound entry is the last entry.
C19_Shape ==
    \A t \in TaskIds : \A i \in DOMAIN results[t] :
        LET e == results[t][i] IN
            /\ IsStep(e) \/ DOMAIN e = {"error"}
            /\ i < Len(results[t]) => IsStep(e) /\ e.result["status"] = "error"
            /\ IsStep(e) => e.step = i /\ e.result["status"] \in {"success", "error"}
            /\ (IsStep(e) /\ e.result["status"] = "success") => i = Len(results[t])
            /\ ~IsStep(e) =>
                  /\ i = Len(results[t])
                  /\ \/ e = DecisionFailedEntry
                     \/ \E n \in ProposedNames : e = ToolNotFoundEntry(n)

\* C19 witness: a returned trajectory of three entries ends in a success,
\* another of two entries ends in an entry that is not a step outcome.
C19_Witness ==
    \E t, u \in TaskIds :
        /\ Returned(t) /\ Len(results[t]) = 3
        /\ IsStep(results[t][3]) /\ results[t][3].result["status"] = "success"
        /\ Returned(u) /\ Len(results[u]) = 2 /\ ~IsStep(results[u][2])

====
